---- MODULE Spec2Model ----
(***************************************************************************)
(* HedgeX Pro (src/app.py): one run of the Streamlit script, from the      *)
(* market-data fetch through the data-processing loop and the four tabs,   *)
(* with the numeric core (payoff grids, breakeven, max loss, portfolio     *)
(* beta, hedge units) computed as the script computes it.                  *)
(*                                                                         *)
(* Numbers.  The script computes in numpy float64.  A value is modelled as *)
(* a pair <<n, d>>: d > 0 is the rational n/d in lowest terms, and d = 0   *)
(* is one of the non-finite floats: <<1,0>> = +inf, <<-1,0>> = -inf,       *)
(* <<0,0>> = NaN.  Rounding error, signed zero and overflow are not        *)
(* modelled: "equal" below is equality of the exact values.                *)
(***************************************************************************)
EXTENDS Integers, Sequences, FiniteSets, TLC

\* ------------------------------------------------------------------------
\* float64 arithmetic (exact on finite values, IEEE on inf and NaN)
\* ------------------------------------------------------------------------
Sgn(x) == IF x > 0 THEN 1 ELSE IF x < 0 THEN -1 ELSE 0

Abs(x) == IF x < 0 THEN -x ELSE x

RECURSIVE GCD(_, _)
GCD(a, b) == IF b = 0 THEN a ELSE GCD(b, a % b)

Norm(n, d) ==
    IF d = 0 THEN <<Sgn(n), 0>>
    ELSE LET g == GCD(Abs(n), Abs(d))
             s == Sgn(d)
         IN  <<(s * n) \div g, (s * d) \div g>>

NaN == <<0, 0>>

Inf == <<1, 0>>

Zero == <<0, 1>>

One == <<1, 1>>

R(n) == <<n, 1>>

Frac(n, d) == Norm(n, d)

IsNaN(x) == x[2] = 0 /\ x[1] = 0

IsFinite(x) == x[2] > 0

Add(x, y) ==
    IF x[2] = 0 /\ y[2] = 0
    THEN (IF x[1] = y[1] THEN x ELSE NaN)
    ELSE IF x[2] = 0 THEN x
    ELSE IF y[2] = 0 THEN y
    ELSE LET g == GCD(x[2], y[2])
         IN  Norm(x[1] * (y[2] \div g) + y[1] * (x[2] \div g),
                  (x[2] \div g) * y[2])

Neg(x) == <<-x[1], x[2]>>

Sub(x, y) == Add(x, Neg(y))

\* inf * 0 is NaN; the common factors are cancelled before multiplying.
Mul(x, y) ==
    IF x[2] = 0 \/ y[2] = 0 THEN Norm(x[1] * y[1], 0)
    ELSE LET g1 == GCD(Abs(x[1]), y[2])
             g2 == GCD(Abs(y[1]), x[2])
         IN  Norm((x[1] \div g1) * (y[1] \div g2),
                  (x[2] \div g2) * (y[2] \div g1))

\* x / y as numpy divides: a finite non-zero over zero is +-inf, 0/0 is NaN.
Div(x, y) ==
    IF y[1] = 0 /\ y[2] > 0
    THEN <<Sgn(x[1]), 0>>
    ELSE Mul(x, <<y[2] * Sgn(y[1]), Abs(y[1])>>)

\* Comparisons: every ordered comparison with NaN is False, NaN != y is True.
Gt(x, y) ==
    /\ ~IsNaN(x)
    /\ ~IsNaN(y)
    /\ IF x[2] = 0 THEN (x[1] = 1 /\ y # Inf)
       ELSE IF y[2] = 0 THEN y[1] = -1
       ELSE x[1] * y[2] > y[1] * x[2]

Eq(x, y) == ~IsNaN(x) /\ ~IsNaN(y) /\ x = y

Ne(x, y) == ~Eq(x, y)

\* np.maximum(x, y): NaN if either is NaN.
Maximum(x, y) ==
    IF IsNaN(x) \/ IsNaN(y) THEN NaN
    ELSE IF Gt(y, x) THEN y ELSE x

\* ------------------------------------------------------------------------
\* np.linspace(start, stop, num): num >= 2 samples, endpoint included.
\* ------------------------------------------------------------------------
\* Mutant of LinspaceAt: the step of a grid that leaves the endpoint out
\* (endpoint=False), (stop - start) / num.
LinspaceAtExclusive(start, stop, num, i) ==
    Add(Mul(R(i - 1), Div(Sub(stop, start), R(num))), start)

\* Sample i (from 1) is start + (i - 1) * step; the last one is set to stop.
LinspaceAt(start, stop, num, i) ==
    IF i = num THEN stop
    ELSE Add(Mul(R(i - 1), Div(Sub(stop, start), R(num - 1))), start)

Linspace(start, stop, num) ==
    [i \in 1..num |-> LinspaceAt(start, stop, num, i)]

\* ------------------------------------------------------------------------
\* Pandas series and frames.  A series is a sequence of rows [date, v] in
\* ascending date order; the price frame df has the columns Close, MA50,
\* MA200 and RSI.
\* ------------------------------------------------------------------------
MaxDates == 4

Dates == 1..MaxDates

\* Rolling windows of calculate_technicals, scaled from 50, 200 and 14 rows
\* to histories of MaxDates rows (RSIWindow <= MA50Window < MA200Window
\* <= MaxDates, as 14 < 50 < 200 < one year of trading days).
MA50Window == 1

MA200Window == 2

RSIWindow == 1

RECURSIVE SumSeq(_)
SumSeq(s) == IF s = <<>> THEN Zero ELSE Add(Head(s), SumSeq(Tail(s)))

\* s.rolling(window=W).mean(): NaN until W rows are in the window.
RollingMean(vals, W) ==
    [i \in 1..Len(vals) |->
        IF i < W THEN NaN
        ELSE Div(SumSeq(SubSeq(vals, i - W + 1, i)), R(W))]

\* column.dropna().to_frame('Close'): the rows of a downloaded column that
\* hold a price, in date order.
DropNaColumn(col) ==
    SelectSeq([d \in Dates |-> [date |-> d, Close |-> col[d]]],
              LAMBDA r : ~IsNaN(r.Close))

calculate_technicals(df) ==
    IF df = <<>> THEN df
    ELSE
    LET close == [i \in 1..Len(df) |-> df[i].Close]
        delta == [i \in 1..Len(df) |->
                    IF i = 1 THEN NaN ELSE Sub(close[i], close[i - 1])]
        up    == [i \in 1..Len(df) |->
                    IF Gt(delta[i], Zero) THEN delta[i] ELSE Zero]
        down  == [i \in 1..Len(df) |->
                    Neg(IF Gt(Zero, delta[i]) THEN delta[i] ELSE Zero)]
        gain  == RollingMean(up, RSIWindow)
        loss  == RollingMean(down, RSIWindow)
        ma50  == RollingMean(close, MA50Window)
        ma200 == RollingMean(close, MA200Window)
    IN  [i \in 1..Len(df) |->
            [date  |-> df[i].date,
             Close |-> close[i],
             MA50  |-> ma50[i],
             MA200 |-> ma200[i],
             RSI   |-> Sub(R(100),
                           Div(R(100), Add(One, Div(gain[i], loss[i]))))]]

\* ------------------------------------------------------------------------
\* Series operations used by calculate_portfolio_beta
\* ------------------------------------------------------------------------
RECURSIVE SortedSeq(_)
SortedSeq(S) ==
    IF S = {} THEN <<>>
    ELSE LET m == CHOOSE x \in S : \A y \in S : x <= y
         IN  <<m>> \o SortedSeq(S \ {m})

Index(s) == {s[i].date : i \in 1..Len(s)}

\* s.get(d): the value at date d, NaN where s has no such date.
Lookup(s, d) ==
    IF d \in Index(s)
    THEN s[CHOOSE i \in 1..Len(s) : s[i].date = d].v
    ELSE NaN

\* a.add(b, fill_value=0): on the union of the two indexes; a side that has
\* no value at a date counts as 0 there (NaN only if both sides lack it).
SeriesAddFillZero(a, b) ==
    LET idx == SortedSeq(Index(a) \cup Index(b))
    IN  [i \in 1..Len(idx) |->
            LET x == Lookup(a, idx[i])
                y == Lookup(b, idx[i])
            IN  [date |-> idx[i],
                 v    |-> IF IsNaN(x) /\ IsNaN(y) THEN NaN
                          ELSE Add(IF IsNaN(x) THEN Zero ELSE x,
                                   IF IsNaN(y) THEN Zero ELSE y)]]

\* s.reindex(idx): one row per date of idx, NaN where s has no such date.
Reindex(s, idx) ==
    [i \in 1..Len(idx) |-> [date |-> idx[i], v |-> Lookup(s, idx[i])]]

RECURSIVE LastValid(_, _)
LastValid(s, i) ==
    IF i = 0 THEN NaN
    ELSE IF ~IsNaN(s[i].v) THEN s[i].v
    ELSE LastValid(s, i - 1)

\* s.ffill(): a NaN takes the last value before it, if there is one.
Ffill(s) ==
    [i \in 1..Len(s) |-> [date |-> s[i].date, v |-> LastValid(s, i)]]

DropNa(s) == SelectSeq(s, LAMBDA r : ~IsNaN(r.v))

\* s.pct_change(): s / s.shift(1) - 1, NaN in the first row.
PctChange(s) ==
    [i \in 1..Len(s) |->
        [date |-> s[i].date,
         v    |-> IF i = 1 THEN NaN
                  ELSE Sub(Div(s[i].v, s[i - 1].v), One)]]

\* One column of the price frame as a series.
Column(df, c) ==
    [i \in 1..Len(df) |->
        [date |-> df[i].date,
         v    |-> CASE c = "Close" -> df[i].Close
                    [] c = "MA50"  -> df[i].MA50
                    [] c = "MA200" -> df[i].MA200
                    [] OTHER       -> df[i].RSI]]

Columns == {"Close", "MA50", "MA200", "RSI"}

\* Sample covariance (ddof = 1) of two lists of the same length n >= 2.
Mean(xs) == Div(SumSeq(xs), R(Len(xs)))

Cov(xs, ys) ==
    LET mx == Mean(xs)
        my == Mean(ys)
    IN  Div(SumSeq([i \in 1..Len(xs) |->
                      Mul(Sub(xs[i], mx), Sub(ys[i], my))]),
            R(Len(xs) - 1))

\* ------------------------------------------------------------------------
\* The portfolio: TICKER_MAP in its insertion order
\* ------------------------------------------------------------------------
Names == <<"Reliance", "Infosys", "HDFC Bank", "Nifty Auto Index">>

IndexName == "Nifty Auto Index"

\* 'Index' not in name
StockNames == SelectSeq(Names, LAMBDA n : n # IndexName)

\* ------------------------------------------------------------------------
\* calculate_portfolio_beta, stage by stage
\* ------------------------------------------------------------------------
\* data['df']['Close'] * data['shares']
AssetValue(data) ==
    [i \in 1..Len(data.df) |->
        [date |-> data.df[i].date,
         v    |-> Mul(data.df[i].Close, R(data.shares))]]

RECURSIVE AddAssets(_, _, _)
AddAssets(portfolio_value, portfolio_securities, names) ==
    IF names = <<>> THEN portfolio_value
    ELSE AddAssets(SeriesAddFillZero(portfolio_value,
                                     AssetValue(portfolio_securities[Head(names)])),
                   portfolio_securities, Tail(names))

\* Lines 71-74: a zero series on the index's dates, plus every constituent's
\* value series.
PortfolioValueSeries(portfolio_securities, index_df) ==
    AddAssets([i \in 1..Len(index_df) |-> [date |-> index_df[i].date, v |-> Zero]],
              portfolio_securities, StockNames)

\* Line 77: index_df.reindex(idx).ffill().dropna(), whose dropna drops a row
\* with a NaN in any column; the result's Close column.
AlignedIndexClose(index_df, idx) ==
    LET col(c) == Ffill(Reindex(Column(index_df, c), idx))
    IN  SelectSeq(col("Close"),
                  LAMBDA r : \A c \in Columns : ~IsNaN(Lookup(col(c), r.date)))

\* Lines 82-85: the two return series, joined on the dates both have.
ReturnsDf(portfolio_value, aligned_close) ==
    LET portfolio_returns == DropNa(PctChange(portfolio_value))
        index_returns     == DropNa(PctChange(aligned_close))
        idx == SortedSeq(Index(portfolio_returns) \cap Index(index_returns))
    IN  [i \in 1..Len(idx) |->
            [date      |-> idx[i],
             portfolio |-> Lookup(portfolio_returns, idx[i]),
             index     |-> Lookup(index_returns, idx[i])]]

\* The locals of one call, kept for inspection: the value series of lines
\* 71-74, the aligned series of lines 76-78 and the returns of lines 82-85.
BetaLocals(portfolio_securities, index_df) ==
    LET summed  == PortfolioValueSeries(portfolio_securities, index_df)
        pv1     == DropNa(Ffill(summed))
        idx1    == [i \in 1..Len(pv1) |-> pv1[i].date]
        aligned == AlignedIndexClose(index_df, idx1)
        idx2    == [i \in 1..Len(aligned) |-> aligned[i].date]
        pv2     == DropNa(Ffill(Reindex(pv1, idx2)))
    IN  [summed          |-> summed,
         portfolio_value |-> pv2,
         aligned_close   |-> aligned,
         returns_df      |-> IF pv2 = <<>> \/ aligned = <<>> THEN <<>>
                             ELSE ReturnsDf(pv2, aligned)]

\* Mutant of BetaOf: the test of line 87 on the number of observations is
\* missing.
BetaOfNoLengthCheck(l) ==
    IF l.portfolio_value = <<>> \/ l.aligned_close = <<>> THEN Zero
    ELSE LET xs == [i \in 1..Len(l.returns_df) |-> l.returns_df[i].portfolio]
             ys == [i \in 1..Len(l.returns_df) |-> l.returns_df[i].index]
             covariance == Cov(xs, ys)
             variance   == Cov(ys, ys)
         IN  IF Ne(variance, Zero) THEN Div(covariance, variance) ELSE Zero

\* Lines 80-93 on those locals: the two early returns, then the ratio.
BetaOf(l) ==
    IF l.portfolio_value = <<>> \/ l.aligned_close = <<>> THEN Zero
    ELSE IF Len(l.returns_df) < 2 THEN Zero
    ELSE LET xs == [i \in 1..Len(l.returns_df) |-> l.returns_df[i].portfolio]
             ys == [i \in 1..Len(l.returns_df) |-> l.returns_df[i].index]
             covariance == Cov(xs, ys)
             variance   == Cov(ys, ys)
         IN  IF Ne(variance, Zero) THEN Div(covariance, variance) ELSE Zero

\* ------------------------------------------------------------------------
\* Widget defaults
\* ------------------------------------------------------------------------
\* float(round(x, -1)) and float(round(x, -2)): to the nearest multiple of
\* unit, a tie to the even multiple; NaN and inf stay as they are.
RoundTo(x, unit) ==
    IF ~IsFinite(x) THEN x
    ELSE LET d  == x[2] * unit
             q  == x[1] \div d
             r2 == 2 * (x[1] - q * d)
         IN  IF r2 > d \/ (r2 = d /\ q % 2 = 1) THEN R((q + 1) * unit)
             ELSE R(q * unit)

\* ------------------------------------------------------------------------
\* tab_direct, lines 256-268: the payoff block of one stock
\* ------------------------------------------------------------------------
GridPoints == 100

DefaultDirectStrike(latest_price) == RoundTo(Mul(latest_price, Frac(98, 100)), 10)

DefaultDirectPremium(latest_price) == Mul(latest_price, Frac(2, 100))

DirectPriceAt(latest_price, i) ==
    LinspaceAt(Mul(latest_price, Frac(8, 10)), Mul(latest_price, Frac(12, 10)),
               GridPoints, i)

\* (price - latest_price) * shares, one grid point
StockPnlAt(price, latest_price, shares) ==
    Mul(Sub(price, latest_price), R(shares))

\* Mutant of PutPnlAt: the put's payoff without the maximum with 0.
PutPnlAtNoFloor(price, direct_k, direct_p, shares) ==
    Mul(Sub(Sub(direct_k, price), direct_p), R(shares))

\* (np.maximum(direct_k - price, 0) - direct_p) * shares, one grid point
PutPnlAt(price, direct_k, direct_p, shares) ==
    Mul(Sub(Maximum(Sub(direct_k, price), Zero), direct_p), R(shares))

HedgedPnlAt(price, latest_price, direct_k, direct_p, shares) ==
    Add(StockPnlAt(price, latest_price, shares),
        PutPnlAt(price, direct_k, direct_p, shares))

\* Mutant of breakeven_direct: the premium subtracted.
breakeven_directMinus(latest_price, direct_p) == Sub(latest_price, direct_p)

breakeven_direct(latest_price, direct_p) == Add(latest_price, direct_p)

max_loss_direct(latest_price, direct_k, direct_p, shares) ==
    IF Gt(latest_price, direct_k)
    THEN Mul(Add(Sub(latest_price, direct_k), direct_p), R(shares))
    ELSE Mul(direct_p, R(shares))

\* Mutant of DirectChart: no curve for a spot that is not > 0.
DirectChartPositiveSpot(name, latest_price, shares, direct_k, direct_p) ==
    [title          |-> name,
     price_range    |-> IF Gt(latest_price, Zero)
                        THEN [i \in 1..GridPoints |-> DirectPriceAt(latest_price, i)]
                        ELSE <<>>,
     pnl            |-> IF Gt(latest_price, Zero)
                        THEN [i \in 1..GridPoints |->
                                StockPnlAt(DirectPriceAt(latest_price, i),
                                           latest_price, shares)]
                        ELSE <<>>,
     hedged_pnl     |-> IF Gt(latest_price, Zero)
                        THEN [i \in 1..GridPoints |->
                                HedgedPnlAt(DirectPriceAt(latest_price, i),
                                            latest_price, direct_k, direct_p,
                                            shares)]
                        ELSE <<>>,
     breakeven_line |-> breakeven_direct(latest_price, direct_p),
     max_loss_line  |-> Neg(max_loss_direct(latest_price, direct_k,
                                            direct_p, shares))]

\* What render_payoff_chart draws: the two traces over the grid, the
\* breakeven line at x = breakeven_point and the Max Loss line at
\* y = -max_loss.
DirectChart(name, latest_price, shares, direct_k, direct_p) ==
    [title          |-> name,
     price_range    |-> [i \in 1..GridPoints |-> DirectPriceAt(latest_price, i)],
     pnl            |-> [i \in 1..GridPoints |->
                           StockPnlAt(DirectPriceAt(latest_price, i),
                                      latest_price, shares)],
     hedged_pnl     |-> [i \in 1..GridPoints |->
                           HedgedPnlAt(DirectPriceAt(latest_price, i),
                                       latest_price, direct_k, direct_p, shares)],
     breakeven_line |-> breakeven_direct(latest_price, direct_p),
     max_loss_line  |-> Neg(max_loss_direct(latest_price, direct_k,
                                            direct_p, shares))]

\* ------------------------------------------------------------------------
\* tab_cross, lines 277-316
\* ------------------------------------------------------------------------
\* Mutant of hedge_units: the test on the index price is missing.
hedge_unitsUnguarded(beta, portfolio_value, index_price) ==
    Mul(beta, Div(portfolio_value, index_price))

hedge_units(beta, portfolio_value, index_price) ==
    IF Gt(index_price, Zero)
    THEN Mul(beta, Div(portfolio_value, index_price))
    ELSE Zero

DefaultCrossStrike(index_price) == RoundTo(Mul(index_price, Frac(98, 100)), 100)

DefaultCrossPremium1(index_price) == Mul(index_price, Frac(15, 1000))

DefaultCrossPremium2(index_price) == Mul(index_price, Frac(25, 1000))

CrossPriceAt(index_price, i) ==
    LinspaceAt(Mul(index_price, Frac(85, 100)), Mul(index_price, Frac(115, 100)),
               GridPoints, i)

\* (index_price_range / latest_price - 1) * portfolio_value * beta
PortfolioChangeAt(price, index_price, portfolio_value, beta) ==
    Mul(Mul(Sub(Div(price, index_price), One), portfolio_value), beta)

\* (np.maximum(k - index_price_range, 0) - p) * hedge_units
CrossPutPnlAt(price, k, p, units) ==
    Mul(Sub(Maximum(Sub(k, price), Zero), p), units)

breakeven_cross(index_price, p, beta) ==
    IF Ne(beta, Zero) THEN Add(index_price, Div(p, beta)) ELSE Inf

max_loss_cross(index_price, k, p, units, beta) ==
    Sub(Mul(p, units), Mul(Mul(Sub(index_price, k), units), beta))

CrossChart(title, index_price, portfolio_value, beta, units, k, p) ==
    [title          |-> title,
     price_range    |-> [i \in 1..GridPoints |-> CrossPriceAt(index_price, i)],
     pnl            |-> [i \in 1..GridPoints |->
                           PortfolioChangeAt(CrossPriceAt(index_price, i),
                                             index_price, portfolio_value, beta)],
     hedged_pnl     |-> [i \in 1..GridPoints |->
                           Add(PortfolioChangeAt(CrossPriceAt(index_price, i),
                                                 index_price, portfolio_value,
                                                 beta),
                               CrossPutPnlAt(CrossPriceAt(index_price, i),
                                             k, p, units))],
     breakeven_line |-> breakeven_cross(index_price, p, beta),
     max_loss_line  |-> Neg(max_loss_cross(index_price, k, p, units, beta))]

\* ------------------------------------------------------------------------
\* Inputs of one run
\* ------------------------------------------------------------------------
MaxPrice == 2

MaxShares == 2

PriceOrNaN == {NaN, One, R(MaxPrice)}

\* A downloaded 'Close' column: one cell per date, NaN where the ticker has
\* no quote on that date.
AllColumns == [Dates -> PriceOrNaN]

EmptyColumn == [d \in Dates |-> NaN]

FlatColumn == [d \in Dates |-> One]

SwingColumn == [d \in Dates |-> R(1 + (d % MaxPrice))]

\* Flat until the last date, which quotes MaxPrice.
RiseColumn == [d \in Dates |-> IF d = MaxDates THEN R(MaxPrice) ELSE One]

\* SwingColumn without its quote on the second date.
GapColumn == [d \in Dates |-> IF d = 2 THEN NaN ELSE SwingColumn[d]]

MarketData(reliance, infosys, hdfc, index) ==
    [n \in {Names[i] : i \in 1..Len(Names)} |->
        CASE n = "Reliance"  -> reliance
          [] n = "Infosys"   -> infosys
          [] n = "HDFC Bank" -> hdfc
          [] OTHER           -> index]

\* The number_input widgets of the sidebar (min_value=0).
SharesInput(reliance, infosys, hdfc) ==
    [n \in {Names[i] : i \in 1..Len(Names)} |->
        CASE n = "Reliance"  -> reliance
          [] n = "Infosys"   -> infosys
          [] n = "HDFC Bank" -> hdfc
          [] OTHER           -> 1]

\* What the user may have typed into the strike and premium widgets, beside
\* the widget's default.
DirectStrikeInputs(latest_price) ==
    {DefaultDirectStrike(latest_price),
     Frac(1, 2), Frac(9, 10), Frac(3, 2), Frac(9, 5), R(2), R(3),
     Mul(latest_price, Frac(4, 5))}

DirectPremiumInputs(latest_price) ==
    {DefaultDirectPremium(latest_price), Zero, Frac(1, 10), One}

CrossStrikeInputs(index_price) == {DefaultCrossStrike(index_price), One}

CrossPremiumInputs(default) == {default, Frac(1, 10)}

IndexColumns == {EmptyColumn, FlatColumn, SwingColumn, GapColumn, RiseColumn}

\* ------------------------------------------------------------------------
\* State of one run of the script
\* ------------------------------------------------------------------------
VARIABLES
    pc,              \* where the script is
    shares_input,    \* the sidebar's share counts
    market_data,     \* get_market_data's result: None or name -> column
    securities,      \* the securities dict built so far
    portfolio_value, \* line 227
    cards,           \* names with a metric card on the dashboard tab
    chart,           \* the figure last handed to st.plotly_chart
    charts_drawn,    \* titles of the figures drawn so far, in order
    beta,            \* line 277
    units,           \* hedge_units, line 282
    locals,          \* the locals of the calculate_portfolio_beta call
    session_state,   \* the keys the report reads: k1, p1, k2, p2
    inputs,          \* strike and premium the last figure was computed from
    report,          \* hedge_params of the report tab
    error_shown      \* st.error of the except handler ran: the failing name

vars == <<pc, shares_input, market_data, securities, portfolio_value, cards,
          chart, charts_drawn, beta, units, locals, session_state, inputs,
          report, error_shown>>

NoChart == [title |-> "", price_range |-> <<>>, pnl |-> <<>>,
            hedged_pnl |-> <<>>, breakeven_line |-> NaN, max_loss_line |-> NaN]

NoLocals == [summed |-> <<>>, portfolio_value |-> <<>>,
             aligned_close |-> <<>>, returns_df |-> <<>>]

NoSecurities == [n \in {} |-> 0]

Blank ==
    /\ securities = NoSecurities
    /\ portfolio_value = Zero
    /\ cards = {}
    /\ chart = NoChart
    /\ charts_drawn = <<>>
    /\ beta = Zero
    /\ units = Zero
    /\ locals = NoLocals
    /\ session_state = [k \in {} |-> Zero]
    /\ inputs = [k |-> Zero, p |-> Zero]
    /\ report = [k \in {} |-> Zero]
    /\ error_shown = ""

\* Lines 217-224: one security's entry.
Security(name, column, shares) ==
    LET df == DropNaColumn(column)
    IN  [name         |-> name,
         df           |-> calculate_technicals(df),
         latest_price |-> IF df # <<>> THEN df[Len(df)].Close ELSE Zero,
         shares       |-> shares]

\* stock_securities: the entries whose name has no 'Index' in it.
StockSecurities(secs) ==
    [n \in (DOMAIN secs) \ {IndexName} |-> secs[n]]

RECURSIVE SumValue(_, _)
SumValue(secs, names) ==
    IF names = <<>> THEN Zero
    ELSE Add(Mul(secs[Head(names)].latest_price, R(secs[Head(names)].shares)),
             SumValue(secs, Tail(names)))

\* ------------------------------------------------------------------------
\* The run, step by step
\* ------------------------------------------------------------------------
NameSet == {Names[i] : i \in 1..Len(Names)}

ShareInputs == {SharesInput(r, 1, 1) : r \in 0..MaxShares}

MarketDataInputs ==
    {MarketData(r, SwingColumn, FlatColumn, x) :
        r \in {EmptyColumn, SwingColumn, GapColumn},
        x \in {EmptyColumn, SwingColumn, FlatColumn}}

\* get_market_data's None: no column at all.
None == [n \in {} |-> EmptyColumn]

Init ==
    /\ pc = "fetch"
    /\ shares_input \in ShareInputs
    /\ market_data = None
    /\ Blank

\* Line 210 and the test of line 212: get_market_data returns None for an
\* empty download, and the script then only shows the "fetching" notice.
GetMarketData ==
    /\ pc = "fetch"
    /\ \E md \in MarketDataInputs \cup {None} :
          /\ market_data' = md
          /\ pc' = IF md = None THEN "done" ELSE "process"
    /\ UNCHANGED <<shares_input, securities, portfolio_value, cards, chart,
                   charts_drawn, beta, units, locals, session_state, inputs,
                   report, error_shown>>

\* The instrument the loop of line 216 is at.
CurrentName == Names[Cardinality(DOMAIN securities) + 1]

\* Lines 216-224, one iteration that completes.
ProcessInstrument ==
    /\ pc = "process"
    /\ securities' =
          [n \in DOMAIN securities \cup {CurrentName} |->
              IF n = CurrentName
              THEN Security(n, market_data[n], shares_input[n])
              ELSE securities[n]]
    /\ pc' = IF DOMAIN securities' = NameSet THEN "dashboard" ELSE "process"
    /\ UNCHANGED <<shares_input, market_data, portfolio_value, cards, chart,
                   charts_drawn, beta, units, locals, session_state, inputs,
                   report, error_shown>>

\* Mutant of ProcessInstrumentRaises: the failure is reported for the
\* instrument, which is left without data, and the loop goes on.
ProcessInstrumentSkips ==
    /\ pc = "process"
    /\ error_shown' = CurrentName
    /\ securities' =
          [n \in DOMAIN securities \cup {CurrentName} |->
              IF n = CurrentName
              THEN Security(n, EmptyColumn, shares_input[n])
              ELSE securities[n]]
    /\ pc' = IF DOMAIN securities' = NameSet THEN "dashboard" ELSE "process"
    /\ UNCHANGED <<shares_input, market_data, portfolio_value, cards, chart,
                   charts_drawn, beta, units, locals, session_state, inputs,
                   report>>

\* Lines 216-224, one iteration that raises (the column lookup of line 217
\* or get_stock_info of line 223), caught by the handler of lines 329-330,
\* which ends the run with one st.error.
ProcessInstrumentRaises ==
    /\ pc = "process"
    /\ error_shown' = CurrentName
    /\ pc' = "done"
    /\ UNCHANGED <<shares_input, market_data, securities, portfolio_value,
                   cards, chart, charts_drawn, beta, units, locals,
                   session_state, inputs, report>>

\* Lines 226-241: the portfolio value and the dashboard's metric cards.
TabDashboard ==
    /\ pc = "dashboard"
    /\ portfolio_value' = SumValue(securities, StockNames)
    /\ cards' = DOMAIN securities
    /\ pc' = "direct"
    /\ UNCHANGED <<shares_input, market_data, securities, chart, charts_drawn,
                   beta, units, locals, session_state, inputs, report,
                   error_shown>>

\* The stock whose block of the loop of line 247 runs next.
DirectName == StockNames[Len(charts_drawn) + 1]

\* Lines 247-272, one stock of the loop, with the strike and the premium
\* its two widgets hold.
DirectStock(direct_k, direct_p) ==
    /\ pc = "direct"
    /\ chart' = DirectChart(DirectName, securities[DirectName].latest_price,
                            securities[DirectName].shares, direct_k, direct_p)
    /\ inputs' = [k |-> direct_k, p |-> direct_p]
    /\ charts_drawn' = Append(charts_drawn, DirectName)
    /\ pc' = IF Len(charts_drawn') = Len(StockNames) THEN "beta" ELSE "direct"
    /\ UNCHANGED <<shares_input, market_data, securities, portfolio_value,
                   cards, beta, units, locals, session_state, report,
                   error_shown>>

\* The widgets untouched (their defaults), or the strike set to 2.
TabDirect ==
    /\ pc = "direct"
    /\ \E direct_k \in {DefaultDirectStrike(securities[DirectName].latest_price),
                        R(2)} :
          DirectStock(direct_k,
                      DefaultDirectPremium(securities[DirectName].latest_price))

\* Any strike and premium of the input sets.
TabDirectAny ==
    /\ pc = "direct"
    /\ \E direct_k \in DirectStrikeInputs(securities[DirectName].latest_price),
          direct_p \in DirectPremiumInputs(securities[DirectName].latest_price) :
          DirectStock(direct_k, direct_p)

\* Line 277.
TabCrossBeta ==
    /\ pc = "beta"
    /\ locals' = BetaLocals(StockSecurities(securities), securities[IndexName].df)
    /\ beta' = BetaOf(locals')
    /\ pc' = "units"
    /\ UNCHANGED <<shares_input, market_data, securities, portfolio_value,
                   cards, chart, charts_drawn, units, session_state, inputs,
                   report, error_shown>>

\* Line 282.
TabCrossUnits ==
    /\ pc = "units"
    /\ units' = hedge_units(beta, portfolio_value,
                            securities[IndexName].latest_price)
    /\ pc' = "cross1"
    /\ UNCHANGED <<shares_input, market_data, securities, portfolio_value,
                   cards, chart, charts_drawn, beta, locals, session_state,
                   inputs, report, error_shown>>

\* Lines 289-302.
TabCross1 ==
    /\ pc = "cross1"
    /\ LET index_price == securities[IndexName].latest_price
       IN  \E k1 \in {DefaultCrossStrike(index_price)},
              p1 \in CrossPremiumInputs(DefaultCrossPremium1(index_price)) :
               /\ session_state' =
                     [k \in {"k1", "p1"} |-> IF k = "k1" THEN k1 ELSE p1]
               /\ inputs' = [k |-> k1, p |-> p1]
               /\ chart' = CrossChart("1-Month Hedge Payoff", index_price,
                                      portfolio_value, beta, units, k1, p1)
    /\ charts_drawn' = Append(charts_drawn, "1-Month Hedge Payoff")
    /\ pc' = "cross2"
    /\ UNCHANGED <<shares_input, market_data, securities, portfolio_value,
                   cards, beta, units, locals, report, error_shown>>

\* Lines 304-316.
TabCross2 ==
    /\ pc = "cross2"
    /\ LET index_price == securities[IndexName].latest_price
       IN  \E k2 \in CrossStrikeInputs(index_price),
              p2 \in {DefaultCrossPremium2(index_price)} :
               /\ session_state' =
                     [k \in {"k1", "p1", "k2", "p2"} |->
                         CASE k = "k2" -> k2
                           [] k = "p2" -> p2
                           [] OTHER    -> session_state[k]]
               /\ inputs' = [k |-> k2, p |-> p2]
               /\ chart' = CrossChart("2-Month Hedge Payoff", index_price,
                                      portfolio_value, beta, units, k2, p2)
    /\ charts_drawn' = Append(charts_drawn, "2-Month Hedge Payoff")
    /\ pc' = "report"
    /\ UNCHANGED <<shares_input, market_data, securities, portfolio_value,
                   cards, beta, units, locals, report, error_shown>>

\* Lines 318-326: the four keys are in st.session_state once both contract
\* columns ran, so the report is generated.
TabReport ==
    /\ pc = "report"
    /\ report' =
          IF {"k1", "p1", "k2", "p2"} \subseteq DOMAIN session_state
          THEN [k \in {"k1", "cost1", "k2", "cost2"} |->
                   CASE k = "k1"    -> session_state["k1"]
                     [] k = "cost1" -> Mul(session_state["p1"], units)
                     [] k = "k2"    -> session_state["k2"]
                     [] OTHER       -> Mul(session_state["p2"], units)]
          ELSE report
    /\ pc' = "done"
    /\ UNCHANGED <<shares_input, market_data, securities, portfolio_value,
                   cards, chart, charts_drawn, beta, units, locals,
                   session_state, inputs, error_shown>>

Next ==
    \/ GetMarketData
    \/ ProcessInstrument
    \/ ProcessInstrumentRaises
    \/ TabDashboard
    \/ TabDirect
    \/ TabCrossBeta
    \/ TabCrossUnits
    \/ TabCross1
    \/ TabCross2
    \/ TabReport

Spec == Init /\ [][Next]_vars

\* ------------------------------------------------------------------------
\* The numeric blocks on their own, each from the state the run is in when
\* it reaches the block (the figures drawn by earlier tabs are not kept).
\* ------------------------------------------------------------------------
\* The securities dict once the loop of line 216 has completed.
AllSecurities(md, sh) == [n \in NameSet |-> Security(n, md[n], sh[n])]

Processed(md, sh) ==
    /\ market_data = md
    /\ shares_input = sh
    /\ securities = AllSecurities(md, sh)
    /\ portfolio_value = SumValue(AllSecurities(md, sh), StockNames)
    /\ cards = NameSet
    /\ chart = NoChart
    /\ beta = Zero
    /\ units = Zero
    /\ locals = NoLocals
    /\ session_state = [k \in {} |-> Zero]
    /\ inputs = [k |-> Zero, p |-> Zero]
    /\ report = [k \in {} |-> Zero]
    /\ error_shown = ""

\* The direct block of the last stock, for every spot (none, 1, MaxPrice),
\* share count, strike and premium of the input sets.
InitDirect ==
    /\ pc = "direct"
    /\ charts_drawn = SubSeq(StockNames, 1, Len(StockNames) - 1)
    /\ \E h \in {EmptyColumn, FlatColumn, RiseColumn}, n \in 0..MaxShares :
          Processed(MarketData(SwingColumn, SwingColumn, h, SwingColumn),
                    SharesInput(1, 1, n))

NextDirect == TabDirectAny

SpecDirect == InitDirect /\ [][NextDirect]_vars

\* calculate_portfolio_beta and hedge_units, for every Reliance column over
\* Dates and every index column of IndexColumns.
InitBeta ==
    /\ pc = "beta"
    /\ charts_drawn = StockNames
    /\ \E r \in AllColumns, x \in IndexColumns, h \in 0..1 :
          Processed(MarketData(r, EmptyColumn, FlatColumn, x),
                    SharesInput(1, 1, h))

NextBeta ==
    \/ TabCrossBeta
    \/ TabCrossUnits

SpecBeta == InitBeta /\ [][NextBeta]_vars

\* ------------------------------------------------------------------------
\* Properties of the direct (protective put) hedge
\* ------------------------------------------------------------------------
\* The figure last drawn is a stock's direct-hedge chart; its inputs.
DirectDrawn == chart.title \in {StockNames[i] : i \in 1..Len(StockNames)}

ChartSpot == securities[chart.title].latest_price

ChartShares == securities[chart.title].shares

\* C1: the max loss reported for the direct hedge equals
\* (spot - strike + premium) * shares for every spot, strike, premium and
\* share count, strike > spot included, unclamped (stated for the stocks
\* that have a price).
C1_MaxLossLinear ==
    (DirectDrawn /\ Gt(ChartSpot, Zero)) =>
        Neg(chart.max_loss_line) =
            Mul(Add(Sub(ChartSpot, inputs.k), inputs.p), R(ChartShares))

\* C2: whenever the grid's lower bound 0.8 * spot is <= strike, the hedged
\* P&L at the grid's minimum price equals the negated max loss of the same
\* run, which is where the Max Loss line is drawn (stated for the stocks
\* that have a price).
C2_FloorAtMaxLossLine ==
    (/\ DirectDrawn
     /\ Gt(ChartSpot, Zero)
     /\ ~Gt(Mul(ChartSpot, Frac(8, 10)), inputs.k)) =>
        chart.hedged_pnl[1] = chart.max_loss_line

\* C3 as stated: with shares = 1, the hedged P&L at price = breakeven
\* = spot + premium is 0 for every spot, strike and premium.
C3_BreakevenPnlZero ==
    (DirectDrawn /\ ChartShares = 1) =>
        HedgedPnlAt(chart.breakeven_line, ChartSpot, inputs.k, inputs.p, 1) = Zero

\* C3 as amended: with shares = 1, the breakeven drawn is spot + premium, and
\* the hedged P&L there is 0 when strike <= spot + premium and
\* strike - spot - premium (> 0) when strike > spot + premium.
C3_BreakevenPnl ==
    (DirectDrawn /\ ChartShares = 1) =>
        LET at == HedgedPnlAt(chart.breakeven_line, ChartSpot,
                              inputs.k, inputs.p, 1)
            excess == Sub(inputs.k, Add(ChartSpot, inputs.p))
        IN  /\ chart.breakeven_line = Add(ChartSpot, inputs.p)
            /\ IF Gt(excess, Zero) THEN at = excess ELSE at = Zero

\* A one-share chart with a positive spot and premium whose strike is not
\* above spot + premium.
C3_Witness ==
    /\ DirectDrawn
    /\ ChartShares = 1
    /\ Gt(ChartSpot, Zero)
    /\ Gt(inputs.p, Zero)
    /\ ~Gt(inputs.k, Add(ChartSpot, inputs.p))

\* C10: the three series have the grid's length; the grid runs from
\* 0.8 * spot to 1.2 * spot inclusive in equal steps, never decreasing and
\* strictly increasing for a positive spot; stockPL[i] = (priceGrid[i] - spot)
\* * shares and hedgedPL[i] = stockPL[i] + (max(strike - priceGrid[i], 0)
\* - premium) * shares at every grid point.
C10_DirectCurve ==
    DirectDrawn =>
        LET g == chart.price_range
            n == ChartShares
        IN  /\ Len(g) = GridPoints
            /\ Len(chart.pnl) = Len(g)
            /\ Len(chart.hedged_pnl) = Len(g)
            /\ g[1] = Mul(ChartSpot, Frac(4, 5))
            /\ g[Len(g)] = Mul(ChartSpot, Frac(6, 5))
            /\ \A i \in 1..(Len(g) - 1) :
                  /\ Sub(g[i + 1], g[i]) = Sub(g[2], g[1])
                  /\ ~Gt(g[i], g[i + 1])
                  /\ Gt(ChartSpot, Zero) => Gt(g[i + 1], g[i])
            /\ \A i \in 1..Len(g) :
                  /\ chart.pnl[i] = Mul(Sub(g[i], ChartSpot), R(n))
                  /\ chart.hedged_pnl[i] =
                        Add(chart.pnl[i],
                            Mul(Sub(IF Gt(inputs.k, g[i])
                                    THEN Sub(inputs.k, g[i]) ELSE Zero,
                                    inputs.p),
                                R(n)))

\* A chart of a held stock (shares > 0, spot > 0) whose strike lies inside
\* the grid, so that both branches of the maximum occur.
C10_Witness ==
    /\ DirectDrawn
    /\ ChartShares > 0
    /\ Gt(ChartSpot, Zero)
    /\ Gt(inputs.k, chart.price_range[1])
    /\ Gt(chart.price_range[GridPoints], inputs.k)

\* The floor of the hedged position: (strike - spot - premium) * shares.
DirectFloor ==
    Mul(Sub(Sub(inputs.k, ChartSpot), inputs.p), R(ChartShares))

\* C11: at every grid price and for every shares >= 0, hedgedPL is at least
\* (strike - spot - premium) * shares; with shares > 0 it equals that floor
\* exactly at the grid prices <= strike and is above it at the others; and
\* at every grid price >= strike, hedgedPL = stockPL - premium * shares.
C11_FloorInvariant ==
    DirectDrawn =>
        \A i \in 1..Len(chart.price_range) :
            LET g == chart.price_range[i]
                h == chart.hedged_pnl[i]
            IN  /\ ~Gt(DirectFloor, h)
                /\ ChartShares > 0 => (h = DirectFloor <=> ~Gt(g, inputs.k))
                /\ ~Gt(inputs.k, g) =>
                      h = Sub(chart.pnl[i], Mul(inputs.p, R(ChartShares)))

\* A chart of a held stock with a price and a premium paid whose strike is
\* the grid's lowest price: the curve lies on the floor at its first point,
\* where price = strike, and above the floor at its last.
C11_Witness ==
    /\ DirectDrawn
    /\ ChartShares > 0
    /\ Gt(ChartSpot, Zero)
    /\ Gt(inputs.p, Zero)
    /\ chart.price_range[1] = inputs.k
    /\ chart.hedged_pnl[1] = DirectFloor
    /\ Gt(chart.hedged_pnl[GridPoints], DirectFloor)

\* ------------------------------------------------------------------------
\* Properties of the run and of the cross hedge
\* ------------------------------------------------------------------------
ChartDrawn == chart.title # ""

\* C4: no value handed to the renderer (beta, hedge units, breakeven, max
\* loss, payoff points) is ever NaN or infinite.
C4_AllFinite ==
    /\ IsFinite(beta)
    /\ IsFinite(units)
    /\ ChartDrawn =>
          /\ IsFinite(chart.breakeven_line)
          /\ IsFinite(chart.max_loss_line)
          /\ \A i \in 1..Len(chart.price_range) :
                /\ IsFinite(chart.price_range[i])
                /\ IsFinite(chart.pnl[i])
                /\ IsFinite(chart.hedged_pnl[i])

\* The beta call has returned.
BetaReturned == pc \in {"units", "cross1", "cross2", "report"}

\* A float, finite or not: what a computed beta is.
IsFloat(x) == DOMAIN x = {1, 2}

\* C5 as stated: with fewer than 2 aligned return observations the beta
\* calculation ends in an outcome of its own, not in a numeric beta.
C5_InsufficientDataNotNumeric ==
    (BetaReturned /\ Len(locals.returns_df) < 2) => ~IsFloat(beta)

\* C5 as amended: with fewer than 2 aligned return observations the beta
\* calculation returns the number 0, which the caller uses as the hedge
\* ratio like any computed beta: the hedge units it derives are 0.
C5_InsufficientDataIsZero ==
    (BetaReturned /\ Len(locals.returns_df) < 2) =>
        /\ beta = Zero
        /\ pc # "units" => units = Zero

\* A call on a portfolio that has values, of which one return observation
\* remains.
C5_Witness ==
    /\ BetaReturned
    /\ Len(locals.returns_df) = 1
    /\ locals.summed # <<>>

\* C6 as stated: after a failure on one instrument, every instrument that
\* processed successfully still has its results displayed.
C6_OthersStillShown ==
    (pc = "done" /\ error_shown # "") => DOMAIN securities \subseteq cards

\* C6 as amended: a failure while processing any instrument ends the run:
\* no metric card, no chart and no report is displayed for any instrument,
\* and the one error shown is that of the instrument the loop was at.
C6_FailureEndsRun ==
    error_shown # "" =>
        /\ pc = "done"
        /\ cards = {}
        /\ charts_drawn = <<>>
        /\ ~ChartDrawn
        /\ DOMAIN report = {}
        /\ error_shown = Names[Cardinality(DOMAIN securities) + 1]

\* A failure after at least one instrument had been processed.
C6_Witness ==
    /\ error_shown # ""
    /\ DOMAIN securities # {}

\* C7 as stated: the protective put curve is computed only for a spot > 0.
C7_NoCurveForDegenerateGrid == DirectDrawn => Gt(ChartSpot, Zero)

\* C7 as amended: the curve is computed for every stock, a stock without a
\* price included: no error results; with spot = 0 the grid is GridPoints
\* points all equal to 0, stockPL is 0 at each and hedgedPL is
\* (max(strike, 0) - premium) * shares at each; and once the direct tab is
\* past, every stock's chart has been drawn.
C7_DegenerateGridStillDrawn ==
    /\ (DirectDrawn /\ ~Gt(ChartSpot, Zero)) =>
          /\ error_shown = ""
          /\ Len(chart.price_range) = GridPoints
          /\ Len(chart.pnl) = GridPoints
          /\ Len(chart.hedged_pnl) = GridPoints
          /\ \A i \in 1..GridPoints :
                /\ chart.price_range[i] = Zero
                /\ chart.pnl[i] = Zero
                /\ chart.hedged_pnl[i] =
                      Mul(Sub(IF Gt(inputs.k, Zero) THEN inputs.k ELSE Zero,
                              inputs.p),
                          R(ChartShares))
    /\ BetaReturned => SubSeq(charts_drawn, 1, Len(StockNames)) = StockNames

\* The chart of a held stock whose cleaned series is empty.
C7_Witness ==
    /\ DirectDrawn
    /\ securities[chart.title].df = <<>>
    /\ ChartSpot = Zero
    /\ ChartShares > 0

\* The close of the last row of df at or before date d, 0 if there is none.
RECURSIVE LastKnownClose(_, _)
LastKnownClose(df, d) ==
    IF df = <<>> THEN Zero
    ELSE IF df[Len(df)].date <= d THEN df[Len(df)].Close
    ELSE LastKnownClose(SubSeq(df, 1, Len(df) - 1), d)

RECURSIVE ForwardFilledValue(_, _)
ForwardFilledValue(names, d) ==
    IF names = <<>> THEN Zero
    ELSE Add(Mul(LastKnownClose(securities[Head(names)].df, d),
                 R(securities[Head(names)].shares)),
             ForwardFilledValue(Tail(names), d))

\* C8: on every date of the index series, each constituent counts in the
\* portfolio value with its last known price (forward fill), a date missing
\* from its own series included.
C8_GapsForwardFilled ==
    BetaReturned =>
        \A i \in 1..Len(locals.summed) :
            locals.summed[i].date \in Index(Column(securities[IndexName].df, "Close"))
                => locals.summed[i].v =
                      ForwardFilledValue(StockNames, locals.summed[i].date)

\* C9: hedge units = beta * portfolioValue / indexPrice when indexPrice > 0
\* (units * indexPrice = beta * portfolioValue, cross-multiplied; NaN for a
\* NaN beta), and 0 when indexPrice <= 0.
C9_HedgeUnits ==
    pc \in {"cross1", "cross2", "report"} =>
        LET x == securities[IndexName].latest_price
        IN  IF Gt(x, Zero)
            THEN IF IsFinite(beta)
                 THEN /\ IsFinite(units)
                      /\ units[1] * (beta[2] * portfolio_value[2] * x[1])
                            = (beta[1] * portfolio_value[1] * x[2]) * units[2]
                 ELSE IsNaN(beta) /\ IsNaN(units)
            ELSE units = Zero

\* Hedge units computed from a non-zero beta, a positive portfolio value and
\* a positive index price.
C9_Witness ==
    /\ pc = "cross1"
    /\ Gt(securities[IndexName].latest_price, Zero)
    /\ Gt(portfolio_value, Zero)
    /\ IsFinite(beta)
    /\ beta # Zero
    /\ units # Zero

====
